---- MODULE Spec2Model ----
(***************************************************************************)
(* Meeting-notes summarizer: the in-memory entity store (MemStorage) and   *)
(* the Express handlers of routes.ts that sequence the store, the          *)
(* completion collaborator (Groq) and the mail collaborator (nodemailer).  *)
(*                                                                         *)
(* JavaScript strings are sequences of one-character strings.  A value of  *)
(* a request body is a record [t, v]: t is its typeof-style tag and v its  *)
(* text (empty for undefined and null).  A Map is the sequence of its      *)
(* values in insertion order; every value carries its key in field id.     *)
(***************************************************************************)
EXTENDS Integers, Sequences, FiniteSets, TLC

VARIABLES transcripts, summaries, emailShares, nextId, now, nreq,
          generating, mailing, groqCalls, mailCalls, resp

vars == <<transcripts, summaries, emailShares, nextId, now, nreq,
          generating, mailing, groqCalls, mailCalls, resp>>

store == <<transcripts, summaries, emailShares, nextId>>

(* Bounds of the model. *)
MaxReq == 2
MaxClock == 1
MaxCalls == 3

(***************************************************************************)
(* JavaScript values                                                       *)
(***************************************************************************)
Undefined == [t |-> "undefined", v |-> <<>>]
Null == [t |-> "null", v |-> <<>>]
Str(s) == [t |-> "string", v |-> s]
Num(digits) == [t |-> "number", v |-> digits]

\* !x : undefined, null, "" and 0 are falsy.
Falsy(x) ==
    \/ x.t \in {"undefined", "null"}
    \/ x.t = "string" /\ x.v = <<>>
    \/ x.t = "number" /\ x.v = <<"0">>

\* a || b
Or(a, b) == IF Falsy(a) THEN b ELSE a

\* The characters /\s/ matches and String.prototype.trim strips.
WhiteSpace == {" ", "\t", "\n"}

RECURSIVE TrimStart(_)
TrimStart(s) ==
    IF s # <<>> /\ Head(s) \in WhiteSpace THEN TrimStart(Tail(s)) ELSE s

RECURSIVE TrimEnd(_)
TrimEnd(s) ==
    IF s # <<>> /\ s[Len(s)] \in WhiteSpace
    THEN TrimEnd(SubSeq(s, 1, Len(s) - 1)) ELSE s

\* String.prototype.trim
Trim(s) == TrimEnd(TrimStart(s))

\* s.split(/\s+/): the pieces between the maximal runs of whitespace; a
\* leading or trailing run leaves an empty piece, and "" gives [""].
RECURSIVE SplitFrom(_, _, _)
SplitFrom(s, cur, pieces) ==
    IF s = <<>> THEN Append(pieces, cur)
    ELSE IF Head(s) \in WhiteSpace
         THEN SplitFrom(TrimStart(s), <<>>, Append(pieces, cur))
         ELSE SplitFrom(Tail(s), Append(cur, Head(s)), pieces)

SplitWhitespace(s) == SplitFrom(s, <<>>, <<>>)

\* Number.prototype.toString for a natural number.
Digit(d) == <<"0", "1", "2", "3", "4", "5", "6", "7", "8", "9">>[d + 1]

RECURSIVE NumToString(_)
NumToString(n) ==
    IF n < 10 THEN <<Digit(n)>> ELSE Append(NumToString(n \div 10), Digit(n % 10))

\* Faulty variant: the content is split without being trimmed first.
WordCountUntrimmed(content) == NumToString(Len(SplitWhitespace(content)))

\* content.trim().split(/\s+/).length.toString()
WordCount(content) == NumToString(Len(SplitWhitespace(Trim(content))))

\* s begins with p.
StartsWith(s, p) == Len(p) <= Len(s) /\ SubSeq(s, 1, Len(p)) = p

(***************************************************************************)
(* Map, in insertion order                                                 *)
(***************************************************************************)
MapHas(m, k) == \E i \in 1..Len(m) : m[i].id = k

MapGet(m, k) == m[CHOOSE i \in 1..Len(m) : m[i].id = k]

MapKeys(m) == {m[i].id : i \in 1..Len(m)}

\* Faulty variant: an existing key is removed and inserted again at the end.
MapSetReinsert(m, k, val) ==
    Append(SelectSeq(m, LAMBDA e : e.id # k), val)

\* Map.prototype.set: an existing key keeps its position.
MapSet(m, k, val) ==
    IF MapHas(m, k)
    THEN [i \in 1..Len(m) |-> IF m[i].id = k THEN val ELSE m[i]]
    ELSE Append(m, val)

\* Faulty variant: every draw gives the same identifier.
UuidRepeated(n) == <<"u">>

\* randomUUID(): the n-th identifier the process draws.
Uuid(n) == <<"u">> \o NumToString(n)

(***************************************************************************)
(* MemStorage                                                              *)
(***************************************************************************)
\* The record createTranscript builds, with identifier id at time t.
NewTranscript(ins, id, t) ==
    [id |-> id, content |-> ins.content,
     fileName |-> Or(ins.fileName, Null), createdAt |-> t]

\* The record createSummary builds.
NewSummary(ins, id, t) ==
    [id |-> id, transcriptId |-> ins.transcriptId, content |-> ins.content,
     customInstructions |-> Or(ins.customInstructions, Null),
     wordCount |-> Or(ins.wordCount, Null), createdAt |-> t]

\* The record createEmailShare builds.
NewEmailShare(ins, id, t) ==
    [id |-> id, summaryId |-> ins.summaryId, recipients |-> ins.recipients,
     subject |-> ins.subject, message |-> Or(ins.message, Null), sentAt |-> t]

\* Faulty variant: the update stamps the record again.
UpdatedSummaryRestamped(summary, content, t) ==
    [summary EXCEPT !.content = content,
                    !.wordCount = Str(WordCount(content)),
                    !.createdAt = t]

\* The record updateSummary stores in place of summary; t is the time of
\* the call, which the code does not read.
UpdatedSummary(summary, content, t) ==
    [summary EXCEPT !.content = content,
                    !.wordCount = Str(WordCount(content))]

\* The summaries map after updateSummary(id, content).
UpdateSummary(m, id, content, t) ==
    IF ~MapHas(m, id) THEN m
    ELSE MapSet(m, id, UpdatedSummary(MapGet(m, id), content, t))

\* What updateSummary(id, content) returns.
UpdateSummaryReturn(m, id, content, t) ==
    IF ~MapHas(m, id) THEN Undefined ELSE UpdatedSummary(MapGet(m, id), content, t)

\* getSummary(id); getTranscript is alike.
MapGetOrUndefined(m, id) == IF MapHas(m, id) THEN MapGet(m, id) ELSE Undefined

\* getSummariesByTranscriptId
GetSummariesByTranscriptId(m, transcriptId) ==
    SelectSeq(m, LAMBDA s : s.transcriptId = transcriptId)

\* getEmailSharesBySummaryId
GetEmailSharesBySummaryId(m, summaryId) ==
    SelectSeq(m, LAMBDA e : e.summaryId = summaryId)

OneTwoThree ==
    <<"o","n","e"," ","t","w","o"," ","t","h","r","e","e">>

DefaultInstructions ==
    <<"S","u","m","m","a","r","i","z","e"," ","t","h","e"," ","f","o","l","l","o","w","i",
      "n","g"," ","m","e","e","t","i","n","g"," ","t","r","a","n","s","c","r","i","p","t",
      " ","i","n"," ","a"," ","c","l","e","a","r",","," ","o","r","g","a","n","i","z","e",
      "d"," ","f","o","r","m","a","t"," ","w","i","t","h"," ","k","e","y"," ","d","i","s",
      "c","u","s","s","i","o","n"," ","p","o","i","n","t","s"," ","a","n","d"," ","a","c",
      "t","i","o","n"," ","i","t","e","m","s",".">>

TranscriptLabel ==
    <<"\n","\n","T","r","a","n","s","c","r","i","p","t",":","\n">>

(***************************************************************************)
(* Request validation (zod)                                                *)
(***************************************************************************)
Letters ==
    {"a", "b", "c", "d", "e", "f", "g", "h", "i", "j", "k", "l", "m",
     "n", "o", "p", "q", "r", "s", "t", "u", "v", "w", "x", "y", "z"}

Digits == {"0", "1", "2", "3", "4", "5", "6", "7", "8", "9"}

AllIn(s, chars) == \A i \in 1..Len(s) : s[i] \in chars

\* The pieces of s between the occurrences of the character ch.
RECURSIVE SplitOn(_, _, _, _)
SplitOn(s, ch, cur, pieces) ==
    IF s = <<>> THEN Append(pieces, cur)
    ELSE IF Head(s) = ch
         THEN SplitOn(Tail(s), ch, <<>>, Append(pieces, cur))
         ELSE SplitOn(Tail(s), ch, Append(cur, Head(s)), pieces)

\* A label of the domain: a letter or digit, then letters, digits or "-".
IsDomainLabel(l) ==
    /\ l # <<>>
    /\ l[1] \in Letters \cup Digits
    /\ AllIn(l, Letters \cup Digits \cup {"-"})

\* z.string().email(): one "@"; the local part is made of letters, digits
\* and _ ' + - . , does not begin with "." and ends with none of "." and ';
\* no ".." anywhere; the domain is labels joined by "." and ends with a
\* top-level label of two or more letters.
IsEmail(s) ==
    LET parts == SplitOn(s, "@", <<>>, <<>>) IN
    /\ Len(parts) = 2
    /\ LET local == parts[1]
           labels == SplitOn(parts[2], ".", <<>>, <<>>)
       IN /\ local # <<>>
          /\ AllIn(local, Letters \cup Digits \cup {"_", "'", "+", "-", "."})
          /\ local[1] # "."
          /\ local[Len(local)] \in Letters \cup Digits \cup {"_", "+", "-"}
          /\ \A i \in 1..(Len(s) - 1) : ~(s[i] = "." /\ s[i + 1] = ".")
          /\ Len(labels) >= 2
          /\ \A i \in 1..(Len(labels) - 1) : IsDomainLabel(labels[i])
          /\ Len(labels[Len(labels)]) >= 2
          /\ AllIn(labels[Len(labels)], Letters)

\* z.string().min(1)
NonEmptyString(x) == x.t = "string" /\ Len(x.v) >= 1

\* z.string().optional()
OptionalString(x) == x.t \in {"string", "undefined"}

\* generateSummarySchema.parse(body) does not throw.
GenerateSummarySchemaOk(body) ==
    /\ NonEmptyString(body.transcriptContent)
    /\ OptionalString(body.customInstructions)

\* Faulty variant: the recipients array may be empty.
SendEmailSchemaNoMin(body) ==
    /\ NonEmptyString(body.summaryId)
    /\ \A i \in 1..Len(body.recipients) : IsEmail(body.recipients[i])
    /\ NonEmptyString(body.subject)
    /\ OptionalString(body.message)

\* sendEmailSchema.parse(body) does not throw.
SendEmailSchemaOk(body) ==
    /\ NonEmptyString(body.summaryId)
    /\ \A i \in 1..Len(body.recipients) : IsEmail(body.recipients[i])
    /\ Len(body.recipients) >= 1
    /\ NonEmptyString(body.subject)
    /\ OptionalString(body.message)

\* Faulty variant: only the type is checked.
ContentIsString(content) == content.t = "string"

\* The guard of POST /api/transcripts and of PATCH /api/summaries/:id:
\* !(!content || typeof content !== 'string')
ContentPresent(content) == ~Falsy(content) /\ content.t = "string"

(***************************************************************************)
(* Pieces of the handlers                                                  *)
(***************************************************************************)
\* Faulty variant: a ?? b, which keeps the empty string.
EffectiveInstructionsNullish(customInstructions) ==
    IF customInstructions.t \in {"undefined", "null"}
    THEN DefaultInstructions ELSE customInstructions.v

\* customInstructions || defaultInstructions
EffectiveInstructions(customInstructions) ==
    Or(customInstructions, Str(DefaultInstructions)).v

\* `${instructions}\n\nTranscript:\n${transcriptContent}`
Prompt(instructions, transcriptContent) ==
    instructions \o TranscriptLabel \o transcriptContent

\* completion.choices[0]?.message?.content || ""
SummaryContent(completionContent) == Or(completionContent, Str(<<>>)).v

RECURSIVE JoinQuoted(_)
JoinQuoted(list) ==
    IF list = <<>> THEN <<>>
    ELSE <<"\"">> \o Head(list) \o <<"\"">>
         \o (IF Len(list) > 1 THEN <<",">> ELSE <<>>) \o JoinQuoted(Tail(list))

\* JSON.stringify of an array of strings that need no escaping.
JsonStringify(list) == <<"[">> \o JoinQuoted(list) \o <<"]">>

\* Faulty variant: Promise.allSettled, which never rejects.
PromiseAllSettled(outcomes) ==
    IF \E i \in 1..Len(outcomes) : outcomes[i] = "pending" THEN "pending"
    ELSE "fulfilled"

\* The state of Promise.all over promises in these states: it rejects with
\* the first rejection and fulfils when every promise has fulfilled.
PromiseAll(outcomes) ==
    IF \E i \in 1..Len(outcomes) : outcomes[i] = "rejected" THEN "rejected"
    ELSE IF \E i \in 1..Len(outcomes) : outcomes[i] = "pending" THEN "pending"
    ELSE "fulfilled"

\* Faulty variant: the check is left out.
NotFoundNever(x) == FALSE

\* !summary, for what getSummary or updateSummary returned.
NotFound(x) == x = Undefined

\* An answer a handler sends.
Response(rid, route, req, status, body) ==
    [rid |-> rid, route |-> route, req |-> req, status |-> status, body |-> body]


(***************************************************************************)
(* Inputs                                                                  *)
(***************************************************************************)
ExampleAB == <<" ", " ", "a", " ", " ", " ", "b", " ", " ">>

\* req.body.content of POST /api/transcripts
TranscriptContents ==
    {Undefined, Num(<<"5">>), Str(<<>>), Str(<<" ", " ">>), Str(<<" ", "a", " ">>)}

\* req.body.content of PATCH /api/summaries/:id
PatchContents ==
    {Undefined, Num(<<"5">>), Str(<<>>), Str(<<" ", "\n">>), Str(OneTwoThree),
     Str(ExampleAB)}

\* req.body of POST /api/summaries/generate
GenerateBody(transcriptContent, customInstructions) ==
    [transcriptContent |-> transcriptContent, customInstructions |-> customInstructions]

GenerateBodies ==
    {GenerateBody(Undefined, Undefined), GenerateBody(Str(<<>>), Str(<<"c">>)),
     GenerateBody(Str(<<" ">>), Undefined), GenerateBody(Str(<<"a">>), Str(<<>>)),
     GenerateBody(Str(<<"a">>), Str(<<"c">>))}

\* What the completion collaborator answers: an error, or a completion
\* whose first choice has this content.
Completions ==
    {[ok |-> FALSE, content |-> Null], [ok |-> TRUE, content |-> Null],
     [ok |-> TRUE, content |-> Str(<<"a", "\t", "b">>)]}

\* req.file of POST /api/transcripts/upload
Upload(mimetype, buffer) ==
    [present |-> TRUE, mimetype |-> mimetype, buffer |-> buffer,
     originalname |-> Str(<<"f">>)]

Uploads ==
    {[present |-> FALSE, mimetype |-> "", buffer |-> <<>>, originalname |-> Undefined],
     Upload("text/plain", <<"a", " ">>), Upload("docx", <<>>), Upload("image/png", <<"a">>)}

Alice == <<"a", "@", "b", ".", "c", "c">>
Bob == <<"b", ".", "b", "@", "b", "-", "b", ".", "c", "c">>
NotAnAddress == <<"a", "@", "b">>

\* The identifiers a request may name: those of the stored summaries, and
\* one that names no summary.
Ids == MapKeys(summaries) \cup {Uuid(nextId)}

\* req.body of POST /api/summaries/email
EmailBody(summaryId, recipients, subject, message) ==
    [summaryId |-> summaryId, recipients |-> recipients, subject |-> subject,
     message |-> message]

EmailBodies ==
    {EmailBody(Str(<<>>), <<Alice>>, Str(<<"s">>), Undefined)}
    \cup {EmailBody(Str(id), <<>>, Str(<<"s">>), Undefined) : id \in Ids}
    \cup {EmailBody(Str(id), <<NotAnAddress>>, Str(<<"s">>), Undefined) : id \in Ids}
    \cup {EmailBody(Str(id), <<Alice, NotAnAddress>>, Str(<<"s">>), Undefined) : id \in Ids}
    \cup {EmailBody(Str(id), <<Alice>>, Str(<<>>), Undefined) : id \in Ids}
    \cup {EmailBody(Str(id), <<Alice>>, Str(<<"s">>), Undefined) : id \in Ids}
    \cup {EmailBody(Str(id), <<Alice, Bob>>, Str(<<"s">>), Str(<<"m">>)) : id \in Ids}

(***************************************************************************)
(* State                                                                   *)
(***************************************************************************)
Init ==
    /\ transcripts = <<>>
    /\ summaries = <<>>
    /\ emailShares = <<>>
    /\ nextId = 1
    /\ now = 0
    /\ nreq = 0
    /\ generating = {}
    /\ mailing = {}
    /\ groqCalls = 0
    /\ mailCalls = 0
    /\ resp = Response(0, "none", Null, 0, Null)

\* Time passes.
Tick ==
    /\ now < MaxClock
    /\ now' = now + 1
    /\ UNCHANGED <<store, nreq, generating, mailing, groqCalls, mailCalls, resp>>

\* A request arrives.
Accept ==
    /\ nreq < MaxReq
    /\ nreq' = nreq + 1

(***************************************************************************)
(* Handlers                                                                *)
(***************************************************************************)
\* POST /api/transcripts/upload
PostUpload(file) ==
    LET route == "POST /api/transcripts/upload" IN
    /\ Accept
    /\ UNCHANGED <<summaries, emailShares, now, generating, mailing, groqCalls, mailCalls>>
    /\ IF file.present /\ file.mimetype \notin {"text/plain", "docx"}
       THEN \* the fileFilter refuses the file and the handler does not run
            /\ resp' = Response(nreq', route, file, 500, "Only .txt and .docx files are allowed")
            /\ UNCHANGED <<transcripts, nextId>>
       ELSE IF ~file.present
       THEN /\ resp' = Response(nreq', route, file, 400, "No file uploaded")
            /\ UNCHANGED <<transcripts, nextId>>
       ELSE LET transcript == NewTranscript([content |-> file.buffer,
                                             fileName |-> file.originalname],
                                            Uuid(nextId), now)
            IN /\ transcripts' = MapSet(transcripts, transcript.id, transcript)
               /\ nextId' = nextId + 1
               /\ resp' = Response(nreq', route, file, 200, transcript)

\* POST /api/transcripts
PostTranscript(body) ==
    LET route == "POST /api/transcripts" IN
    /\ Accept
    /\ UNCHANGED <<summaries, emailShares, now, generating, mailing, groqCalls, mailCalls>>
    /\ IF ~ContentPresent(body.content)
       THEN /\ resp' = Response(nreq', route, [body |-> body], 400, "Content is required")
            /\ UNCHANGED <<transcripts, nextId>>
       ELSE LET transcript == NewTranscript([content |-> Trim(body.content.v),
                                             fileName |-> Null],
                                            Uuid(nextId), now)
            IN /\ transcripts' = MapSet(transcripts, transcript.id, transcript)
               /\ nextId' = nextId + 1
               /\ resp' = Response(nreq', route, [body |-> body], 200, transcript)

\* POST /api/summaries/generate, up to the call of the completion
\* collaborator.
PostGenerate(body) ==
    LET route == "POST /api/summaries/generate" IN
    /\ Accept
    /\ UNCHANGED <<summaries, emailShares, now, mailing, mailCalls>>
    /\ IF ~GenerateSummarySchemaOk(body)
       THEN /\ resp' = Response(nreq', route, [body |-> body], 400, "Invalid request data")
            /\ UNCHANGED <<transcripts, nextId, generating, groqCalls>>
       ELSE LET transcriptContent == body.transcriptContent.v
                transcript == NewTranscript([content |-> transcriptContent,
                                             fileName |-> Null],
                                            Uuid(nextId), now)
                instructions == EffectiveInstructions(body.customInstructions)
            IN /\ transcripts' = MapSet(transcripts, transcript.id, transcript)
               /\ nextId' = nextId + 1
               /\ groqCalls' = groqCalls + 1
               /\ generating' = generating \cup
                      {[rid |-> nreq', body |-> body, transcript |-> transcript,
                        instructions |-> instructions,
                        prompt |-> Prompt(instructions, transcriptContent)]}
               /\ UNCHANGED resp

\* POST /api/summaries/generate, from the answer of the completion
\* collaborator.
GenerateDone(g, completion) ==
    LET route == "POST /api/summaries/generate" IN
    /\ g \in generating
    /\ generating' = generating \ {g}
    /\ UNCHANGED <<transcripts, emailShares, now, nreq, mailing, groqCalls, mailCalls>>
    /\ IF ~completion.ok
       THEN /\ resp' = Response(g.rid, route, g, 500, "Failed to generate summary")
            /\ UNCHANGED <<summaries, nextId>>
       ELSE LET summaryContent == SummaryContent(completion.content)
                summary == NewSummary([transcriptId |-> g.transcript.id,
                                       content |-> summaryContent,
                                       customInstructions |-> Str(g.instructions),
                                       wordCount |-> Str(WordCount(summaryContent))],
                                      Uuid(nextId), now)
            IN /\ summaries' = MapSet(summaries, summary.id, summary)
               /\ nextId' = nextId + 1
               /\ resp' = Response(g.rid, route, g, 200, summary)

\* PATCH /api/summaries/:id
PatchSummary(id, body) ==
    LET route == "PATCH /api/summaries/:id"
        req == [id |-> id, body |-> body]
    IN
    /\ Accept
    /\ UNCHANGED <<transcripts, emailShares, nextId, now, generating, mailing,
                   groqCalls, mailCalls>>
    /\ IF ~ContentPresent(body.content)
       THEN /\ resp' = Response(nreq', route, req, 400, "Content is required")
            /\ UNCHANGED summaries
       ELSE LET updatedSummary == UpdateSummaryReturn(summaries, id, body.content.v, now)
            IN /\ summaries' = UpdateSummary(summaries, id, body.content.v, now)
               /\ resp' = IF NotFound(updatedSummary)
                          THEN Response(nreq', route, req, 404, "Summary not found")
                          ELSE Response(nreq', route, req, 200, updatedSummary)

\* GET /api/summaries/:id
GetSummary(id) ==
    LET route == "GET /api/summaries/:id" IN
    /\ Accept
    /\ UNCHANGED <<store, now, generating, mailing, groqCalls, mailCalls>>
    /\ LET summary == MapGetOrUndefined(summaries, id)
       IN resp' = IF NotFound(summary)
                  THEN Response(nreq', route, [id |-> id], 404, "Summary not found")
                  ELSE Response(nreq', route, [id |-> id], 200, summary)

\* POST /api/summaries/email from `await Promise.all(emailPromises)` on, for
\* the request m whose sends are in the states m.outcomes; rest are the
\* other requests with sends in flight.
AfterSends(m, rest) ==
    LET route == "POST /api/summaries/email"
        settled == IF m.status # 0 THEN "done" ELSE PromiseAll(m.outcomes)
        inFlight == \E i \in 1..Len(m.outcomes) : m.outcomes[i] = "pending"
        keep(r) == IF inFlight THEN rest \cup {r} ELSE rest
    IN
    CASE settled = "fulfilled" ->
            LET emailShare == NewEmailShare(
                                  [summaryId |-> m.summaryId,
                                   recipients |-> JsonStringify(m.recipients),
                                   subject |-> m.subject,
                                   message |-> Or(m.message, Null)],
                                  Uuid(nextId), now)
            IN /\ emailShares' = MapSet(emailShares, emailShare.id, emailShare)
               /\ nextId' = nextId + 1
               /\ resp' = Response(m.rid, route, m, 200,
                                   [count |-> Len(m.recipients), emailShare |-> emailShare])
               /\ mailing' = keep([m EXCEPT !.status = 200])
      [] settled = "rejected" ->
            /\ resp' = Response(m.rid, route, m, 500, "Failed to send email")
            /\ mailing' = keep([m EXCEPT !.status = 500])
            /\ UNCHANGED <<emailShares, nextId>>
      [] OTHER ->
            /\ mailing' = keep(m)
            /\ UNCHANGED <<emailShares, nextId, resp>>

\* POST /api/summaries/email, up to the calls of the mail collaborator.
PostEmail(body) ==
    LET route == "POST /api/summaries/email" IN
    /\ Accept
    /\ UNCHANGED <<transcripts, summaries, now, generating, groqCalls>>
    /\ IF ~SendEmailSchemaOk(body)
       THEN /\ resp' = Response(nreq', route, [body |-> body], 400, "Invalid request data")
            /\ UNCHANGED <<emailShares, nextId, mailing, mailCalls>>
       ELSE IF NotFound(MapGetOrUndefined(summaries, body.summaryId.v))
       THEN /\ resp' = Response(nreq', route, [body |-> body], 404, "Summary not found")
            /\ UNCHANGED <<emailShares, nextId, mailing, mailCalls>>
       ELSE /\ mailCalls' = mailCalls + Len(body.recipients)
            /\ AfterSends([rid |-> nreq', body |-> body,
                           summaryId |-> body.summaryId.v,
                           recipients |-> body.recipients,
                           subject |-> body.subject.v,
                           message |-> body.message,
                           outcomes |-> [i \in 1..Len(body.recipients) |-> "pending"],
                           status |-> 0],
                          mailing)

\* The mail collaborator finishes the send to recipient i of request m.
MailDone(m, i, outcome) ==
    /\ m \in mailing
    /\ i \in 1..Len(m.outcomes)
    /\ m.outcomes[i] = "pending"
    /\ UNCHANGED <<transcripts, summaries, now, nreq, generating, groqCalls, mailCalls>>
    /\ AfterSends([m EXCEPT !.outcomes[i] = outcome], mailing \ {m})

Next ==
    \/ Tick
    \/ \E file \in Uploads : PostUpload(file)
    \/ \E content \in TranscriptContents : PostTranscript([content |-> content])
    \/ \E body \in GenerateBodies : PostGenerate(body)
    \/ \E g \in generating, completion \in Completions : GenerateDone(g, completion)
    \/ \E id \in Ids, content \in PatchContents : PatchSummary(id, [content |-> content])
    \/ \E id \in Ids : GetSummary(id)
    \/ \E body \in EmailBodies : PostEmail(body)
    \/ \E m \in mailing, i \in 1..2, outcome \in {"fulfilled", "rejected"} :
           MailDone(m, i, outcome)

Spec == Init /\ [][Next]_vars


(***************************************************************************)
(* MemStorage called directly, as a caller of the IStorage interface may   *)
(***************************************************************************)
StoreTranscriptInputs ==
    [content : {<<>>, <<"a">>}, fileName : {Undefined, Str(<<"f">>)}]

StoreSummaryInputs ==
    [transcriptId : {<<"t", "1">>, <<"t", "2">>}, content : {<<"a">>},
     customInstructions : {Undefined, Str(<<"c">>)},
     wordCount : {Null, Str(<<"7">>)}]

StoreEmailShareInputs ==
    [summaryId : {<<"s", "1">>}, recipients : {JsonStringify(<<Alice>>)},
     subject : {<<"s">>}, message : {Undefined, Str(<<>>), Str(<<"m">>)}]

StoreContents == {<<>>, <<"b", " ", "c">>, ExampleAB}

\* A call of a method of the store is made.
Call ==
    /\ nreq < MaxCalls
    /\ nreq' = nreq + 1
    /\ UNCHANGED <<now, generating, mailing, groqCalls, mailCalls>>

StoreCreateTranscript(ins) ==
    LET transcript == NewTranscript(ins, Uuid(nextId), now) IN
    /\ Call
    /\ transcripts' = MapSet(transcripts, transcript.id, transcript)
    /\ nextId' = nextId + 1
    /\ resp' = Response(nreq', "createTranscript", ins, 0, transcript)
    /\ UNCHANGED <<summaries, emailShares>>

StoreCreateSummary(ins) ==
    LET summary == NewSummary(ins, Uuid(nextId), now) IN
    /\ Call
    /\ summaries' = MapSet(summaries, summary.id, summary)
    /\ nextId' = nextId + 1
    /\ resp' = Response(nreq', "createSummary", ins, 0, summary)
    /\ UNCHANGED <<transcripts, emailShares>>

StoreUpdateSummary(id, content) ==
    /\ Call
    /\ summaries' = UpdateSummary(summaries, id, content, now)
    /\ resp' = Response(nreq', "updateSummary", [id |-> id, content |-> content], 0,
                        UpdateSummaryReturn(summaries, id, content, now))
    /\ UNCHANGED <<transcripts, emailShares, nextId>>

StoreCreateEmailShare(ins) ==
    LET emailShare == NewEmailShare(ins, Uuid(nextId), now) IN
    /\ Call
    /\ emailShares' = MapSet(emailShares, emailShare.id, emailShare)
    /\ nextId' = nextId + 1
    /\ resp' = Response(nreq', "createEmailShare", ins, 0, emailShare)
    /\ UNCHANGED <<transcripts, summaries>>

StoreNext ==
    \/ Tick
    \/ \E ins \in StoreTranscriptInputs : StoreCreateTranscript(ins)
    \/ \E ins \in StoreSummaryInputs : StoreCreateSummary(ins)
    \/ \E id \in Ids, content \in StoreContents : StoreUpdateSummary(id, content)
    \/ \E ins \in StoreEmailShareInputs : StoreCreateEmailShare(ins)

StoreSpec == Init /\ [][StoreNext]_vars


(***************************************************************************)
(* Properties                                                              *)
(***************************************************************************)
\* A handler answers in this step.
Answers == resp'.rid # resp.rid

Has(outcomes, o) == \E i \in 1..Len(outcomes) : outcomes[i] = o

AllFulfilled(outcomes) == \A i \in 1..Len(outcomes) : outcomes[i] = "fulfilled"

\* C1: in the send-email flow a failed send to any recipient makes the
\* request answer 500 and no EmailShare is stored for it: an EmailShare is
\* stored only in the step that answers 200 to a request all of whose sends
\* were fulfilled, and a request with a rejected send is answered 500.
C1_FailedSendFailsRequest ==
    [][/\ \A m \in mailing' : Has(m.outcomes, "rejected") => m.status = 500
       /\ (Answers /\ resp'.route = "POST /api/summaries/email"
                   /\ resp'.status \in {200, 500})
            => /\ resp'.status = 200 <=> AllFulfilled(resp'.req.outcomes)
               /\ resp'.status = 500 <=> Has(resp'.req.outcomes, "rejected")
               /\ resp'.status = 500 => emailShares' = emailShares
       /\ emailShares' # emailShares
            => /\ Answers
               /\ resp'.route = "POST /api/summaries/email"
               /\ resp'.status = 200
               /\ resp'.req.outcomes # <<>>
               /\ AllFulfilled(resp'.req.outcomes)
               /\ emailShares' = Append(emailShares, resp'.body.emailShare)
               /\ resp'.body.emailShare.summaryId = resp'.req.body.summaryId.v]_vars

\* A request to two recipients, one send fulfilled and one rejected, was
\* answered 500 and no EmailShare is stored.
C1_Witness ==
    /\ resp.route = "POST /api/summaries/email"
    /\ resp.status = 500
    /\ resp.req.outcomes = <<"fulfilled", "rejected">>
    /\ emailShares = <<>>

C2_InvalidEmail(body) ==
    \/ body.summaryId = Str(<<>>)
    \/ body.recipients = <<>>
    \/ \E i \in 1..Len(body.recipients) : ~IsEmail(body.recipients[i])
    \/ body.subject = Str(<<>>)

C2_InvalidGenerate(body) == body.transcriptContent \in {Undefined, Str(<<>>)}

C2_Invalid(r) ==
    \/ r.route = "POST /api/summaries/email" /\ C2_InvalidEmail(r.req.body)
    \/ r.route = "POST /api/summaries/generate" /\ C2_InvalidGenerate(r.req.body)

\* C2: a send-email request with no recipient, an invalid address, an empty
\* subject or an empty summaryId, and a generate-summary request with empty
\* or missing transcriptContent, is answered 400 in a step that calls no
\* collaborator and writes nothing, and it never waits for a collaborator.
C2_InvalidRequestHasNoEffect ==
    [][/\ \A g \in generating' : ~C2_InvalidGenerate(g.body)
       /\ \A m \in mailing' : ~C2_InvalidEmail(m.body)
       /\ (Answers /\ C2_Invalid(resp'))
            => /\ resp'.status = 400
               /\ UNCHANGED <<transcripts, summaries, emailShares, nextId,
                              groqCalls, mailCalls>>]_vars

\* A send-email request with no recipient that names a stored summary was
\* answered 400.
C2_Witness ==
    /\ resp.route = "POST /api/summaries/email"
    /\ resp.status = 400
    /\ resp.req.body.recipients = <<>>
    /\ MapHas(summaries, resp.req.body.summaryId.v)
    /\ mailCalls = 0

\* C3: every stored Summary names a stored Transcript and every stored
\* EmailShare names a stored Summary.
C3_ReferencesResolve ==
    /\ \A i \in 1..Len(summaries) : MapHas(transcripts, summaries[i].transcriptId)
    /\ \A i \in 1..Len(emailShares) : MapHas(summaries, emailShares[i].summaryId)

\* A send-email request was answered 200: an EmailShare is stored for a
\* stored Summary of a stored Transcript.
C3_Witness ==
    /\ resp.route = "POST /api/summaries/email"
    /\ resp.status = 200
    /\ emailShares # <<>>
    /\ MapHas(summaries, emailShares[1].summaryId)
    /\ MapHas(transcripts, MapGet(summaries, emailShares[1].summaryId).transcriptId)

C4_Refused(content) ==
    content = Undefined \/ content.t # "string" \/ content = Str(<<>>)

\* C4: a PATCH whose content is missing, not a string or empty is answered
\* 400, one with an unknown id 404 (updateSummary returned undefined), and
\* in both cases the store is as before.
C4_RejectedUpdateChangesNothing ==
    [][(Answers /\ resp'.route = "PATCH /api/summaries/:id")
         => LET id == resp'.req.id
                content == resp'.req.body.content
            IN /\ C4_Refused(content) => resp'.status = 400
               /\ (~C4_Refused(content) /\ ~MapHas(summaries, id))
                    => /\ resp'.status = 404
                       /\ UpdateSummaryReturn(summaries, id, content.v, now) = Undefined
               /\ (C4_Refused(content) \/ ~MapHas(summaries, id))
                    => UNCHANGED <<transcripts, summaries, emailShares, nextId>>]_vars

\* A PATCH with the empty string for a stored summary was answered 400.
C4_Witness ==
    /\ resp.route = "PATCH /api/summaries/:id"
    /\ resp.status = 400
    /\ resp.req.body.content = Str(<<>>)
    /\ MapHas(summaries, resp.req.id)

\* C5: updateSummary on a stored id replaces that Summary's content and
\* leaves its id, transcriptId, customInstructions and createdAt, the
\* number of Summaries, every other Summary, and every Transcript and
\* EmailShare as they were.
C5_UpdateFrame ==
    [][(Answers /\ resp'.route = "updateSummary" /\ MapHas(summaries, resp'.req.id))
         => /\ Len(summaries') = Len(summaries)
            /\ transcripts' = transcripts
            /\ emailShares' = emailShares
            /\ \A i \in 1..Len(summaries) :
                 LET old == summaries[i] IN
                 /\ MapHas(summaries', old.id)
                 /\ LET new == MapGet(summaries', old.id) IN
                    IF old.id = resp'.req.id
                    THEN /\ new.content = resp'.req.content
                         /\ new.transcriptId = old.transcriptId
                         /\ new.customInstructions = old.customInstructions
                         /\ new.createdAt = old.createdAt
                         /\ new = resp'.body
                    ELSE new = old]_vars

\* A Summary created at an earlier time was updated while another Summary
\* is stored.
C5_Witness ==
    /\ resp.route = "updateSummary"
    /\ resp.body # Undefined
    /\ Len(summaries) >= 2
    /\ resp.body.createdAt < now
    /\ resp.body.content = ExampleAB

\* C6: every stored Summary's wordCount is the decimal text of the number
\* of pieces of its trimmed content split on runs of whitespace; "one two
\* three" counts 3 and "  a   b  " counts 2.
C6_WordCountFollowsContent ==
    /\ \A i \in 1..Len(summaries) :
         summaries[i].wordCount =
             Str(NumToString(Len(SplitWhitespace(Trim(summaries[i].content)))))
    /\ WordCount(OneTwoThree) = <<"3">>
    /\ WordCount(ExampleAB) = <<"2">>

\* A generated Summary was updated to "  a   b  " and counts 2.
C6_Witness ==
    /\ resp.route = "PATCH /api/summaries/:id"
    /\ resp.status = 200
    /\ \E i \in 1..Len(summaries) :
         /\ summaries[i].content = ExampleAB
         /\ summaries[i].wordCount = Str(<<"2">>)

\* The place of an identifier among those the process has drawn.
UuidIndex(id) == CHOOSE n \in 1..nextId : Uuid(n) = id

\* C7: getSummariesByTranscriptId(t) is the stored Summaries of t, each
\* once, in the order of their creation, and is empty when there is none.
C7_ByTranscriptInCreationOrder ==
    \A t \in {<<"t", "1">>, <<"t", "2">>, <<"t", "3">>} :
        LET result == GetSummariesByTranscriptId(summaries, t) IN
        /\ \A i \in 1..Len(result) :
             /\ result[i].transcriptId = t
             /\ \E k \in 1..Len(summaries) : summaries[k] = result[i]
        /\ \A k \in 1..Len(summaries) :
             summaries[k].transcriptId = t
               => Cardinality({i \in 1..Len(result) : result[i] = summaries[k]}) = 1
        /\ \A i, j \in 1..Len(result) :
             i < j => UuidIndex(result[i].id) < UuidIndex(result[j].id)
        /\ (\A k \in 1..Len(summaries) : summaries[k].transcriptId # t)
             => result = <<>>

\* The first of two Summaries of one transcript was updated after the
\* second was created.
C7_Witness ==
    /\ resp.route = "updateSummary"
    /\ Len(summaries) = 2
    /\ resp.body = summaries[1]
    /\ summaries[1].transcriptId = summaries[2].transcriptId
    /\ summaries[1].content # <<"a">>

C9_Expected(body) ==
    IF body.customInstructions \in {Undefined, Str(<<>>)}
    THEN DefaultInstructions ELSE body.customInstructions.v

\* C9: the prompt given to the completion collaborator begins with the
\* default instructions when the request has none (absent or empty) and
\* with the custom instructions otherwise, and the stored Summary's
\* customInstructions is that same text.
C9_EffectiveInstructions ==
    /\ \A g \in generating : StartsWith(g.prompt, C9_Expected(g.body))
    /\ (resp.route = "POST /api/summaries/generate" /\ resp.status = 200)
         => /\ StartsWith(resp.req.prompt, C9_Expected(resp.req.body))
            /\ resp.body.customInstructions = Str(C9_Expected(resp.req.body))
            /\ MapHas(summaries, resp.body.id)
            /\ MapGet(summaries, resp.body.id).customInstructions
                 = Str(C9_Expected(resp.req.body))

\* A request with the empty string as custom instructions was answered with
\* a Summary that stores the default instructions.
C9_Witness ==
    /\ resp.route = "POST /api/summaries/generate"
    /\ resp.status = 200
    /\ resp.req.body.customInstructions = Str(<<>>)
    /\ MapGet(summaries, resp.body.id).customInstructions = Str(DefaultInstructions)

\* C10: every Transcript stored by POST /api/transcripts or by
\* POST /api/summaries/generate has non-empty content.
C10_TranscriptContentNonEmpty ==
    /\ (resp.route = "POST /api/transcripts" /\ resp.status = 200)
         => resp.body.content # <<>>
    /\ \A g \in generating : g.transcript.content # <<>>
    /\ (resp.route = "POST /api/summaries/generate" /\ resp.status \in {200, 500})
         => resp.req.transcript.content # <<>>

====
